---- MODULE Spec2Model ----
(***************************************************************************)
(* Model of code_challenge.py: a Streamlit script that composes CTE        *)
(* queries (build_qry, build_seq_qrys, build_CTE), runs them against the   *)
(* warehouse (fetch_data, get_query_result), stores the results in the     *)
(* session state (cache_df) and renders them (show_grid and the three      *)
(* module-level widgets).                                                  *)
(***************************************************************************)
EXTENDS Integers, Sequences, FiniteSets, TLC

VARIABLES
    list_queries,   \* the fragment list the composer is applied to
    return_qry,     \* the final query the composer is applied to
    args,           \* arguments of the last call
    result,         \* outcome of the last call: what it returned or raised
    warehouse,      \* what the last call asked of the warehouse: "idle", "ok", "failed"
    data_cache,     \* st.cache_data memo of fetch_data: query string -> entry
    session_state,  \* st.session_state: key -> DataFrame
    writes,         \* history: per key, the tables passed to cache_df so far
    first_run,      \* history: per key, the table the first run passed to cache_df
    df,             \* the DataFrame handed to show_grid
    page_number,    \* value of the "Page Number" number_input widget
    grid,           \* what show_grid last put on the page
    pc,             \* position of the script run
    run,            \* number of the script run within the session
    surface,        \* messages put on the user surface by the current run
    reads           \* tables the widgets of the current run read from session_state

vars == << list_queries, return_qry, args, result, warehouse, data_cache, session_state,
           writes, first_run, df, page_number, grid, pc, run, surface, reads >>

(***************************************************************************)
(* Python values.  Every value is a record of one shape, so that any two   *)
(* values can be compared: t is the Python type, s the text of a str, n    *)
(* the number of an int, items the elements of a tuple or list or the rows *)
(* of a DataFrame, columns the column names of a DataFrame.                *)
(***************************************************************************)
PyStr(s) == [t |-> "str", s |-> s, n |-> 0, items |-> << >>, columns |-> {}]
PyInt(n) == [t |-> "int", s |-> "", n |-> n, items |-> << >>, columns |-> {}]
PyNone == [t |-> "NoneType", s |-> "", n |-> 0, items |-> << >>, columns |-> {}]
PyTuple(items) == [t |-> "tuple", s |-> "", n |-> 0, items |-> items, columns |-> {}]
PyList(items) == [t |-> "list", s |-> "", n |-> 0, items |-> items, columns |-> {}]
DataFrame(columns, rows) ==
    [t |-> "DataFrame", s |-> "", n |-> 0, items |-> rows, columns |-> columns]

\* isinstance(v, ty)
isinstance(v, ty) == v.t = ty

\* What a call did: returned val, or raised exc; reported are the messages it
\* put on the user surface (st.error / st.warning) on the way.
Return(fn, val, reported) ==
    [fn |-> fn, kind |-> "return", val |-> val, exc |-> "", reported |-> reported]
Raise(fn, exc, reported) ==
    [fn |-> fn, kind |-> "raise", val |-> PyNone, exc |-> exc, reported |-> reported]
NoResult == [fn |-> "", kind |-> "none", val |-> PyNone, exc |-> "", reported |-> << >>]

(***************************************************************************)
(* str() of a value, as an f-string placeholder formats it.                *)
(***************************************************************************)
Digit(d) == CASE d = 0 -> "0" [] d = 1 -> "1" [] d = 2 -> "2" [] d = 3 -> "3"
              [] d = 4 -> "4" [] d = 5 -> "5" [] d = 6 -> "6" [] d = 7 -> "7"
              [] d = 8 -> "8" [] d = 9 -> "9"

RECURSIVE NatToStr(_)
NatToStr(n) == IF n < 10 THEN Digit(n) ELSE NatToStr(n \div 10) \o Digit(n % 10)

Format(v) ==
    CASE v.t = "str" -> v.s
      [] v.t = "int" -> IF v.n < 0 THEN "-" \o NatToStr(-v.n) ELSE NatToStr(v.n)
      [] v.t = "NoneType" -> "None"

(***************************************************************************)
(* The query composer.                                                     *)
(***************************************************************************)
\* build_qry without the closing parenthesis
build_qry_unclosed(t) ==
    IF ~isinstance(t, "tuple") \/ Len(t.items) # 2
    THEN Raise("build_qry", "ValueError", << >>)
    ELSE Return("build_qry", PyStr(Format(t.items[1]) \o " AS (" \o Format(t.items[2])), << >>)

build_qry(t) ==
    IF ~isinstance(t, "tuple") \/ Len(t.items) # 2
    THEN Raise("build_qry", "ValueError", << >>)
    ELSE LET name == t.items[1]
             query == t.items[2]
         IN  Return("build_qry", PyStr(Format(name) \o " AS (" \o Format(query) \o ")"), << >>)

\* sep.join(strs)
RECURSIVE Join(_, _)
Join(sep, strs) ==
    IF strs = << >> THEN ""
    ELSE IF Len(strs) = 1 THEN strs[1]
    ELSE strs[1] \o sep \o Join(sep, Tail(strs))

\* all(isinstance(i, tuple) and len(i) == 2 for i in items)
AllPairs(items) ==
    \A i \in 1..Len(items) : isinstance(items[i], "tuple") /\ Len(items[i].items) = 2

build_seq_qrys(lq) ==
    IF ~isinstance(lq, "list") \/ ~AllPairs(lq.items)
    THEN Raise("build_seq_qrys", "ValueError", << >>)
    ELSE Return("build_seq_qrys",
                PyStr(Join(",", [i \in 1..Len(lq.items) |-> build_qry(lq.items[i]).val.s])),
                << >>)

build_CTE(lq, rq) ==
    IF ~isinstance(rq, "str")
    THEN Raise("build_CTE", "ValueError", << >>)
    ELSE LET seq_qrys == build_seq_qrys(lq)
         IN  IF seq_qrys.kind = "raise"
             THEN Raise("build_CTE", seq_qrys.exc, << >>)
             ELSE Return("build_CTE", PyStr("WITH " \o seq_qrys.val.s \o " " \o rq.s \o ";"), << >>)

(***************************************************************************)
(* The query executor.  The warehouse is an external collaborator: a call  *)
(* of session.sql(query).to_pandas() either raises (ok = FALSE) or returns *)
(* a table.                                                                *)
(***************************************************************************)
\* pd.DataFrame()
EmptyDataFrame == DataFrame({}, << >>)

ErrorExecutingQuery == "Error executing query"

\* The body of fetch_data, behind the st.cache_data decorator.
fetch_data_uncached(query, outcome) ==
    IF ~isinstance(query, "str")
    THEN Raise("fetch_data", "ValueError", << >>)
    ELSE IF outcome.ok
    THEN Return("fetch_data", outcome.df, << >>)
    ELSE Return("fetch_data", EmptyDataFrame, << ErrorExecutingQuery >>)

\* fetch_data letting the warehouse's exception through
fetch_data_reraise(query, cache, outcome) ==
    IF isinstance(query, "str") /\ query.s \in DOMAIN cache
    THEN Return("fetch_data", cache[query.s].val, cache[query.s].reported)
    ELSE IF isinstance(query, "str") /\ ~outcome.ok
    THEN Raise("fetch_data", "Exception", << >>)
    ELSE fetch_data_uncached(query, outcome)

\* fetch_data as decorated: st.cache_data answers a query it has seen from its
\* memo, replaying the messages the first call put on the surface.
fetch_data(query, cache, outcome) ==
    IF isinstance(query, "str") /\ query.s \in DOMAIN cache
    THEN Return("fetch_data", cache[query.s].val, cache[query.s].reported)
    ELSE fetch_data_uncached(query, outcome)

\* The memo after fetch_data(query): a call that returned is remembered.
data_cache_after(query, cache, outcome) ==
    LET r == fetch_data(query, cache, outcome)
    IN  IF r.kind = "return" /\ query.s \notin DOMAIN cache
        THEN [q \in DOMAIN cache \cup {query.s} |->
                 IF q = query.s THEN [val |-> r.val, reported |-> r.reported]
                 ELSE cache[q]]
        ELSE cache

\* Whether fetch_data(query) reached session.sql(query).to_pandas(), and how
\* that call ended.
warehouse_call(query, cache, outcome) ==
    IF ~isinstance(query, "str") \/ query.s \in DOMAIN cache THEN "idle"
    ELSE IF outcome.ok THEN "ok" ELSE "failed"

get_query_result(query_list, result_query, cache, outcome) ==
    LET query == build_CTE(query_list, result_query)
    IN  IF query.kind = "raise"
        THEN Raise("get_query_result", query.exc, << >>)
        ELSE [fetch_data(query.val, cache, outcome) EXCEPT !.fn = "get_query_result"]

\* The memo after get_query_result(query_list, result_query).
data_cache_after_query(query_list, result_query, cache, outcome) ==
    LET query == build_CTE(query_list, result_query)
    IN  IF query.kind = "raise" THEN cache
        ELSE data_cache_after(query.val, cache, outcome)

warehouse_call_query(query_list, result_query, cache, outcome) ==
    LET query == build_CTE(query_list, result_query)
    IN  IF query.kind = "raise" THEN "idle"
        ELSE warehouse_call(query.val, cache, outcome)

\* The empty function: no key stored, nothing memoised.
Empty == [k \in {} |-> EmptyDataFrame]

(***************************************************************************)
(* Inputs of the composer and answers of the warehouse.                    *)
(***************************************************************************)
MaxFrags == 2

EntryA == PyTuple(<< PyStr("A"), PyStr("SELECT 1") >>)
EntryB == PyTuple(<< PyStr("B"), PyStr("SELECT 2") >>)
EntryNoAlias == PyTuple(<< PyStr(""), PyStr("SELECT 1") >>)
EntryTriple == PyTuple(<< PyStr("A"), PyStr("SELECT 1"), PyStr("x") >>)
EntryStr == PyStr("A")
Entries == {EntryA, EntryB, EntryNoAlias, EntryTriple, EntryStr}

TupInputs ==
    Entries \cup { PyTuple(<< PyStr("A"), PyInt(42) >>),
                   PyTuple(<< PyStr("A"), PyNone >>),
                   PyTuple(<< PyInt(-7), PyStr("SELECT 1") >>),
                   PyTuple(<< PyStr("A") >>),
                   PyList(<< PyStr("A"), PyStr("SELECT 1") >>) }

ListInputs ==
    { PyList(items) : items \in UNION { [1..n -> Entries] : n \in 0..MaxFrags } }
    \cup { PyTuple(<< EntryA >>), PyNone }

ReturnInputs == { PyStr("SELECT * FROM A"), PyStr("SELECT 1"), PyStr(""), PyInt(7) }

\* A table of the given columns whose rows are the given row ids.
Table(columns, ids) == DataFrame(columns, [i \in 1..Len(ids) |-> PyInt(ids[i])])

ComposeOutcomes ==
    { [ok |-> FALSE, df |-> EmptyDataFrame],
      [ok |-> TRUE, df |-> Table({"X"}, << 1 >>)] }

(***************************************************************************)
(* SpecCompose: the composer and the executor applied to drawn inputs.     *)
(***************************************************************************)
ScriptIdle ==
    /\ session_state = Empty
    /\ writes = Empty
    /\ first_run = Empty
    /\ pc = "idle"
    /\ run = 0
    /\ surface = << >>
    /\ reads = Empty

GridIdle ==
    /\ df = EmptyDataFrame
    /\ page_number = 1
    /\ grid = [shown |-> FALSE, min_value |-> 1, max_value |-> 1, rows |-> << >>]

ComposeIdle ==
    /\ list_queries = PyNone
    /\ return_qry = PyNone
    /\ args = << >>
    /\ result = NoResult

InitCompose ==
    /\ list_queries \in ListInputs
    /\ return_qry \in ReturnInputs
    /\ args = << >>
    /\ result = NoResult
    /\ warehouse = "idle"
    /\ data_cache = Empty
    /\ ScriptIdle
    /\ GridIdle

CallBuildQry ==
    \E t \in TupInputs :
        /\ args' = << t >>
        /\ result' = build_qry(t)
        /\ warehouse' = "idle"
        /\ UNCHANGED << list_queries, return_qry, data_cache, session_state, writes, first_run,
                        df, page_number, grid, pc, run, surface, reads >>

CallBuildSeqQrys ==
    /\ args' = << list_queries >>
    /\ result' = build_seq_qrys(list_queries)
    /\ warehouse' = "idle"
    /\ UNCHANGED << list_queries, return_qry, data_cache, session_state, writes, first_run,
                    df, page_number, grid, pc, run, surface, reads >>

CallBuildCTE ==
    /\ args' = << list_queries, return_qry >>
    /\ result' = build_CTE(list_queries, return_qry)
    /\ warehouse' = "idle"
    /\ UNCHANGED << list_queries, return_qry, data_cache, session_state, writes, first_run,
                    df, page_number, grid, pc, run, surface, reads >>

CallFetchData ==
    \E outcome \in ComposeOutcomes :
        /\ args' = << return_qry >>
        /\ result' = fetch_data(return_qry, data_cache, outcome)
        /\ warehouse' = warehouse_call(return_qry, data_cache, outcome)
        /\ data_cache' = data_cache_after(return_qry, data_cache, outcome)
        /\ UNCHANGED << list_queries, return_qry, session_state, writes, first_run,
                        df, page_number, grid, pc, run, surface, reads >>

CallGetQueryResult ==
    \E outcome \in ComposeOutcomes :
        /\ args' = << list_queries, return_qry >>
        /\ result' = get_query_result(list_queries, return_qry, data_cache, outcome)
        /\ warehouse' = warehouse_call_query(list_queries, return_qry, data_cache, outcome)
        /\ data_cache' = data_cache_after_query(list_queries, return_qry, data_cache, outcome)
        /\ UNCHANGED << list_queries, return_qry, session_state, writes, first_run,
                        df, page_number, grid, pc, run, surface, reads >>

\* The user clears the st.cache_data memo (the app menu's "Clear cache").
ClearDataCache ==
    /\ data_cache # Empty
    /\ data_cache' = Empty
    /\ UNCHANGED << list_queries, return_qry, args, result, warehouse, session_state, writes, first_run,
                    df, page_number, grid, pc, run, surface, reads >>

NextCompose ==
    \/ CallBuildQry
    \/ CallBuildSeqQrys
    \/ CallBuildCTE
    \/ CallFetchData
    \/ CallGetQueryResult
    \/ ClearDataCache

SpecCompose == InitCompose /\ [][NextCompose]_vars

(***************************************************************************)
(* The result cache: cache_df on st.session_state.                         *)
(***************************************************************************)
\* What cache_df(df_name, df) returns or raises.
cache_df_outcome(df_name, table) ==
    IF ~isinstance(df_name, "str") THEN Raise("cache_df", "ValueError", << >>)
    ELSE IF ~isinstance(table, "DataFrame") THEN Raise("cache_df", "ValueError", << >>)
    ELSE Return("cache_df", PyNone, << >>)

\* cache_df storing the table whether or not the key is there
cache_df_overwrite(df_name, table, state) ==
    IF cache_df_outcome(df_name, table).kind = "raise" THEN state
    ELSE [k \in DOMAIN state \cup {df_name.s} |-> IF k = df_name.s THEN table ELSE state[k]]

\* st.session_state after cache_df(df_name, df).
cache_df(df_name, table, state) ==
    IF cache_df_outcome(df_name, table).kind = "raise" THEN state
    ELSE IF df_name.s \notin DOMAIN state
    THEN [k \in DOMAIN state \cup {df_name.s} |-> IF k = df_name.s THEN table ELSE state[k]]
    ELSE state

\* The history of tables passed to cache_df, after one more call.
Written(df_name, table, history) ==
    IF cache_df_outcome(df_name, table).kind = "raise" THEN history
    ELSE [k \in DOMAIN history \cup {df_name.s} |->
             IF k = df_name.s
             THEN (IF k \in DOMAIN history THEN Append(history[k], table) ELSE << table >>)
             ELSE history[k]]

MaxWrites == 2

KeyInputs == { PyStr("k"), PyStr("df_question_1"), PyInt(1) }
TableInputs ==
    { EmptyDataFrame, Table({"X"}, << 1 >>), Table({"X"}, << 2 >>), PyNone }

InitCache ==
    /\ ComposeIdle
    /\ warehouse = "idle"
    /\ data_cache = Empty
    /\ ScriptIdle
    /\ GridIdle

CallCacheDf ==
    \E df_name \in KeyInputs, table \in TableInputs :
        /\ df_name.s \in DOMAIN writes => Len(writes[df_name.s]) < MaxWrites
        /\ args' = << df_name, table >>
        /\ result' = cache_df_outcome(df_name, table)
        /\ session_state' = cache_df(df_name, table, session_state)
        /\ writes' = Written(df_name, table, writes)
        /\ UNCHANGED << list_queries, return_qry, warehouse, data_cache, first_run, df,
                        page_number, grid, pc, run, surface, reads >>

NextCache == CallCacheDf

SpecCache == InitCache /\ [][NextCache]_vars

(***************************************************************************)
(* Pagination: show_grid.                                                  *)
(***************************************************************************)
page_size == 5

Min(a, b) == IF a < b THEN a ELSE b

\* iloc taking the row at end_idx too
Iloc_inclusive(rows, start_idx, end_idx) ==
    LET lo == Min(start_idx, Len(rows))
        hi == Min(end_idx + 1, Len(rows))
    IN  [i \in 1..(hi - lo) |-> rows[lo + i]]

\* rows.iloc[start_idx:end_idx] for 0 <= start_idx <= end_idx: the rows at the
\* 0-based positions start_idx .. end_idx - 1 that exist.
Iloc(rows, start_idx, end_idx) ==
    LET lo == Min(start_idx, Len(rows))
        hi == Min(end_idx, Len(rows))
    IN  [i \in 1..(hi - lo) |-> rows[lo + i]]

NoGrid == [shown |-> FALSE, min_value |-> 1, max_value |-> 1, rows |-> << >>]

\* show_grid with the page count rounded up
show_grid_ceil(table, page) ==
    LET total_pages == (Len(table.items) + page_size - 1) \div page_size
        start_idx == (page - 1) * page_size
        end_idx == start_idx + page_size
    IN  [shown |-> TRUE, min_value |-> 1, max_value |-> total_pages + 1,
         rows |-> Iloc(table.items, start_idx, end_idx)]

\* What show_grid(df) puts on the page when the number_input holds page: the
\* bounds of the number_input and the rows of the dataframe element.
show_grid(table, page) ==
    LET total_pages == Len(table.items) \div page_size
        start_idx == (page - 1) * page_size
        end_idx == start_idx + page_size
    IN  [shown |-> TRUE, min_value |-> 1, max_value |-> total_pages + 1,
         rows |-> Iloc(table.items, start_idx, end_idx)]

\* What show_grid(df) returns or raises.
show_grid_outcome(table) ==
    IF ~isinstance(table, "DataFrame") THEN Raise("show_grid", "ValueError", << >>)
    ELSE Return("show_grid", PyNone, << >>)

\* What show_result(df, title) returns or raises: the checks of df and of
\* title come first, then st.write(title), then show_grid(df).
show_result_outcome(table, title) ==
    IF ~isinstance(table, "DataFrame") THEN Raise("show_result", "ValueError", << >>)
    ELSE IF ~isinstance(title, "str") THEN Raise("show_result", "ValueError", << >>)
    ELSE Return("show_result", PyNone, << title.s >>)

MaxRows == 26

RowIds(n) == [i \in 1..n |-> i]

GridInputs == { Table({"X"}, RowIds(n)) : n \in 0..MaxRows } \cup { EmptyDataFrame, PyNone }

TitleInputs == { PyStr("Title"), PyInt(5) }

InitGrid ==
    /\ df \in GridInputs
    /\ page_number = 1
    /\ grid = NoGrid
    /\ ComposeIdle
    /\ warehouse = "idle"
    /\ data_cache = Empty
    /\ ScriptIdle

\* A run calls show_grid(df); the number_input holds the value it was left at.
\* The page is rebuilt: what an earlier run wrote is gone.
ShowGrid ==
    /\ args' = << df >>
    /\ result' = show_grid_outcome(df)
    /\ surface' = << >>
    /\ grid' = IF isinstance(df, "DataFrame") THEN show_grid(df, page_number) ELSE NoGrid
    /\ UNCHANGED << list_queries, return_qry, warehouse, data_cache, session_state,
                    writes, first_run, df, page_number, pc, run, reads >>

\* A run calls show_result(df, title): the title is written and the grid
\* rendered, unless an argument check raises, and then nothing is rendered.
ShowResult ==
    \E title \in TitleInputs :
        LET r == show_result_outcome(df, title)
        IN  /\ args' = << df, title >>
            /\ result' = r
            /\ surface' = r.reported
            /\ grid' = IF r.kind = "return" THEN show_grid(df, page_number) ELSE NoGrid
            /\ UNCHANGED << list_queries, return_qry, warehouse, data_cache, session_state,
                            writes, first_run, df, page_number, pc, run, reads >>

\* The user sets the number_input, within the bounds it was rendered with; the
\* script reruns, repeats the call that rendered the grid, and the grid shows
\* the page chosen.
SelectPage ==
    /\ grid.shown
    /\ \E p \in grid.min_value..grid.max_value :
        /\ p # page_number
        /\ page_number' = p
        /\ grid' = show_grid(df, p)
        /\ UNCHANGED << list_queries, return_qry, args, result, warehouse, data_cache,
                        session_state, writes, first_run, df, pc, run, surface, reads >>

NextGrid ==
    \/ ShowGrid
    \/ ShowResult
    \/ SelectPage

SpecGrid == InitGrid /\ [][NextGrid]_vars

(***************************************************************************)
(* The script: the query plans of the three questions, the cache writes    *)
(* and the three visualization widgets, run top to bottom on every         *)
(* interaction of the session.                                             *)
(***************************************************************************)
TEMP_CLEAN_COMPANY ==
    "\n    SELECT DISTINCT *\n    FROM COMPANY C\n    WHERE \n        C.ID IS NOT NULL AND\n        C.SECTOR_NAME IS NOT NULL AND\n        C.TICKER IS NOT NULL\n"

TEMP_CLEAN_PRICE ==
    "\n    SELECT DISTINCT P.CLOSE_USD, P.COMPANY_ID, P.DATE\n    FROM PRICE P\n    WHERE\n        P.CLOSE_USD IS NOT NULL AND\n        P.DATE IS NOT NULL AND\n        P.COMPANY_ID IS NOT NULL\n"

TEMP_CLEAN_POSITION ==
    "\n    SELECT DISTINCT *\n    FROM POSITION PO\n    WHERE\n        PO.COMPANY_ID IS NOT NULL AND\n        PO.DATE IS NOT NULL AND\n        PO.SHARES IS NOT NULL\n"

TEMP_CLOSE_USD_CLEAN ==
    "\n    SELECT \n        C.TICKER,\n        C.SECTOR_NAME,\n        PO.COMPANY_ID,\n        PO.SHARES,\n        P.CLOSE_USD,\n        PO.DATE,\n        LAST_VALUE(P.CLOSE_USD IGNORE NULLS) \n        OVER (PARTITION BY PO.COMPANY_ID ORDER BY PO.DATE ROWS BETWEEN UNBOUNDED PRECEDING AND CURRENT ROW) AS LATEST_CLOSE_USD\n    FROM TEMP_CLEAN_COMPANY C\n    INNER JOIN TEMP_CLEAN_POSITION PO ON PO.COMPANY_ID = C.ID\n    LEFT JOIN TEMP_CLEAN_PRICE P ON P.COMPANY_ID = PO.COMPANY_ID AND P.DATE = PO.DATE\n"

TEMP_CLOSE_USD_POSITIONS ==
    "\n    SELECT \n        TICKER, COMPANY_ID, DATE, SECTOR_NAME,\n        ROUND(SHARES * COALESCE(CLOSE_USD, LATEST_CLOSE_USD), 2) AS CLOSE_USD_POSITION\n    FROM TEMP_CLOSE_USD_CLEAN\n    ORDER BY DATE DESC\n"

TEMP_CLOSE_USD_POSITIONS_LAST_YEAR ==
    "\n    SELECT CP.TICKER, CP.COMPANY_ID, CP.SECTOR_NAME, CP.DATE, CP.CLOSE_USD_POSITION  \n    FROM TEMP_CLOSE_USD_POSITIONS CP\n    WHERE DATE >= DATEADD(YEAR, -1, CURRENT_DATE)\n"

TEMP_AVG_POSITIONS_BY_COMPANY ==
    "\n    SELECT TICKER, ROUND(AVG(CLOSE_USD_POSITION),2) AS AVER, ROW_NUMBER() OVER (ORDER BY AVER DESC) AS rn\n    FROM TEMP_CLOSE_USD_POSITIONS_LAST_YEAR\n    GROUP BY TICKER\n"

TEMP_NUMROWS ==
    "SELECT COUNT(*) AS cnt FROM TEMP_AVG_POSITIONS_BY_COMPANY"

TEMP_RANKED_COMPANIES ==
    "\n    SELECT TICKER, AVER\n    FROM TEMP_AVG_POSITIONS_BY_COMPANY\n    WHERE rn <= (SELECT FLOOR(cnt * 0.25) FROM TEMP_NUMROWS)\n"

question3_result_qry ==
    "\n    SELECT SECTOR_NAME, DATE, ROUND(SUM(CLOSE_USD_POSITION), 2) AS USD_POSITION \n    FROM TEMP_CLOSE_USD_POSITIONS\n    GROUP BY SECTOR_NAME, DATE\n    ORDER BY DATE DESC\n"

question1_list_qrys ==
    PyList(<< PyTuple(<< PyStr("TEMP_CLEAN_COMPANY"), PyStr(TEMP_CLEAN_COMPANY) >>),
              PyTuple(<< PyStr("TEMP_CLEAN_PRICE"), PyStr(TEMP_CLEAN_PRICE) >>),
              PyTuple(<< PyStr("TEMP_CLEAN_POSITION"), PyStr(TEMP_CLEAN_POSITION) >>),
              PyTuple(<< PyStr("TEMP_CLOSE_USD_CLEAN"), PyStr(TEMP_CLOSE_USD_CLEAN) >>) >>)

question2_list_qrys ==
    PyList(question1_list_qrys.items \o
           << PyTuple(<< PyStr("TEMP_CLOSE_USD_POSITIONS"), PyStr(TEMP_CLOSE_USD_POSITIONS) >>),
              PyTuple(<< PyStr("TEMP_CLOSE_USD_POSITIONS_LAST_YEAR"),
                         PyStr(TEMP_CLOSE_USD_POSITIONS_LAST_YEAR) >>),
              PyTuple(<< PyStr("TEMP_AVG_POSITIONS_BY_COMPANY"),
                         PyStr(TEMP_AVG_POSITIONS_BY_COMPANY) >>),
              PyTuple(<< PyStr("TEMP_NUMROWS"), PyStr(TEMP_NUMROWS) >>) >>)

question3_list_qrys ==
    PyList(question1_list_qrys.items \o
           << PyTuple(<< PyStr("TEMP_CLOSE_USD_POSITIONS"), PyStr(TEMP_CLOSE_USD_POSITIONS) >>) >>)

\* every result stored under the key of question 1
Plan_one_key(q) ==
    CASE q = 1 -> [key |-> "df_question_1", list |-> question1_list_qrys,
                   final |-> PyStr(TEMP_CLOSE_USD_POSITIONS)]
      [] q = 2 -> [key |-> "df_question_1", list |-> question2_list_qrys,
                   final |-> PyStr(TEMP_RANKED_COMPANIES)]
      [] q = 3 -> [key |-> "df_question_1", list |-> question3_list_qrys,
                   final |-> PyStr(question3_result_qry)]

\* The query plan of each question, and the key its result is stored under.
Plan(q) ==
    CASE q = 1 -> [key |-> "df_question_1", list |-> question1_list_qrys,
                   final |-> PyStr(TEMP_CLOSE_USD_POSITIONS)]
      [] q = 2 -> [key |-> "df_question_2", list |-> question2_list_qrys,
                   final |-> PyStr(TEMP_RANKED_COMPANIES)]
      [] q = 3 -> [key |-> "df_question_3", list |-> question3_list_qrys,
                   final |-> PyStr(question3_result_qry)]

\* The columns the final query of each question selects.
Columns(q) ==
    CASE q = 1 -> {"TICKER", "COMPANY_ID", "DATE", "SECTOR_NAME", "CLOSE_USD_POSITION"}
      [] q = 2 -> {"TICKER", "AVER"}
      [] q = 3 -> {"SECTOR_NAME", "DATE", "USD_POSITION"}

\* Answers of the warehouse to the query of question q: the call fails, or it
\* returns no rows, or one of two tables with rows.
Outcomes(q) ==
    { [ok |-> FALSE, df |-> EmptyDataFrame],
      [ok |-> TRUE, df |-> Table(Columns(q), << >>)],
      [ok |-> TRUE, df |-> Table(Columns(q), << 1, 2, 3, 4, 5, 6 >>)],
      [ok |-> TRUE, df |-> Table(Columns(q), << 7 >>)] }

\* df.empty: an axis of length 0
IsEmpty(table) == table.items = << >> \/ table.columns = {}

MaxRuns == 2

Widgets == {"widget_1", "widget_2", "widget_3"}

\* reads with one more table read from st.session_state
Read(key) == [k \in DOMAIN reads \cup {key} |-> IF k = key THEN session_state[key] ELSE reads[k]]

\* first_run after a cache_df call of run r
FirstWritten(key, table, r) ==
    IF r = 1 /\ key \notin DOMAIN first_run
    THEN [k \in DOMAIN first_run \cup {key} |-> IF k = key THEN table ELSE first_run[k]]
    ELSE first_run

Init ==
    /\ ComposeIdle
    /\ warehouse = "idle"
    /\ data_cache = Empty
    /\ ScriptIdle
    /\ GridIdle

\* An interaction (the first load, a widget the user touched) starts a run of
\* the script; the page is rebuilt from the top.
StartRun ==
    /\ pc \in {"idle", "done", "fault"}
    /\ run < MaxRuns
    /\ \E p \in (IF grid.shown THEN grid.min_value..grid.max_value ELSE {page_number}) :
          page_number' = p
    /\ run' = run + 1
    /\ pc' = "question_1"
    /\ surface' = << >>
    /\ reads' = Empty
    /\ grid' = NoGrid
    /\ args' = << >>
    /\ result' = NoResult
    /\ warehouse' = "idle"
    /\ UNCHANGED << list_queries, return_qry, data_cache, session_state, writes,
                    first_run, df >>

\* cache_df(key, get_query_result(list, final)) of question q.
Question(q, next) ==
    \E outcome \in Outcomes(q) :
        LET plan == Plan(q)
            r == get_query_result(plan.list, plan.final, data_cache, outcome)
        IN  /\ args' = << plan.list, plan.final >>
            /\ warehouse' = warehouse_call_query(plan.list, plan.final, data_cache, outcome)
            /\ data_cache' = data_cache_after_query(plan.list, plan.final, data_cache, outcome)
            /\ surface' = surface \o r.reported
            /\ IF r.kind = "raise"
               THEN /\ result' = Raise("script", r.exc, << >>)
                    /\ pc' = "fault"
                    /\ UNCHANGED << session_state, first_run >>
               ELSE /\ result' = r
                    /\ session_state' = cache_df(PyStr(plan.key), r.val, session_state)
                    /\ first_run' = FirstWritten(plan.key, r.val, run)
                    /\ pc' = next
            /\ UNCHANGED << list_queries, return_qry, writes, df, page_number, grid,
                            run, reads >>

Question1 == pc = "question_1" /\ Question(1, "question_2")
Question2 == pc = "question_2" /\ Question(2, "question_3")
Question3 == pc = "question_3" /\ Question(3, "widget_1")

\* How the statements of widget 1 end for the table read: the name of the
\* exception that escapes, or "" when the chart is drawn.
Widget1Fault(table) ==
    IF IsEmpty(table)
    THEN (IF "DATE" \notin table.columns THEN "KeyError" ELSE "NameError")
    ELSE IF ~({"DATE", "USD_POSITION"} \subseteq table.columns) THEN "KeyError"
    ELSE IF "SECTOR_NAME" \notin table.columns THEN "ValueError"
    ELSE ""

\* Visualization widget 1: the bar chart of the sectors of df_question_3.
Widget1 ==
    /\ pc = "widget_1"
    /\ IF "df_question_3" \notin DOMAIN session_state
       THEN /\ result' = Raise("script", "KeyError", << >>)
            /\ pc' = "fault"
            /\ UNCHANGED << reads, surface >>
       ELSE LET df_question_3 == session_state["df_question_3"]
                fault == Widget1Fault(df_question_3)
            IN  /\ reads' = Read("df_question_3")
                /\ surface' = IF IsEmpty(df_question_3)
                              THEN Append(surface, "No sector position data available.")
                              ELSE surface
                /\ result' = IF fault = "" THEN NoResult ELSE Raise("script", fault, << >>)
                /\ pc' = IF fault = "" THEN "widget_2" ELSE "fault"
    /\ UNCHANGED << list_queries, return_qry, args, warehouse, data_cache,
                    session_state, writes, first_run, df, page_number, grid, run >>

\* Visualization widget 2: show_grid(st.session_state["df_question_2"]).
Widget2 ==
    /\ pc = "widget_2"
    /\ IF "df_question_2" \notin DOMAIN session_state
       THEN /\ result' = Raise("script", "KeyError", << >>)
            /\ pc' = "fault"
            /\ UNCHANGED << reads, grid, df >>
       ELSE LET df_question_2 == session_state["df_question_2"]
            IN  /\ reads' = Read("df_question_2")
                /\ df' = df_question_2
                /\ result' = show_grid_outcome(df_question_2)
                /\ grid' = show_grid(df_question_2, page_number)
                /\ pc' = "widget_3"
    /\ UNCHANGED << list_queries, return_qry, args, warehouse, data_cache,
                    session_state, writes, first_run, page_number, run, surface >>

\* How the statements of widget 3 end for the table read.
Widget3Fault(table) ==
    IF IsEmpty(table) THEN "NameError"
    ELSE IF "TICKER" \notin table.columns THEN "KeyError"
    ELSE IF {"DATE", "CLOSE_USD_POSITION"} \subseteq table.columns THEN ""
    ELSE "ValueError"

\* Visualization widget 3: the line chart of the company selected in
\* df_question_1.
Widget3 ==
    /\ pc = "widget_3"
    /\ IF "df_question_1" \notin DOMAIN session_state
       THEN /\ result' = Raise("script", "KeyError", << >>)
            /\ pc' = "fault"
            /\ UNCHANGED << reads, surface >>
       ELSE LET df_question_1 == session_state["df_question_1"]
                fault == Widget3Fault(df_question_1)
            IN  /\ reads' = Read("df_question_1")
                /\ surface' = IF IsEmpty(df_question_1)
                              THEN Append(surface, "No company position data available.")
                              ELSE surface
                /\ result' = IF fault = "" THEN NoResult ELSE Raise("script", fault, << >>)
                /\ pc' = IF fault = "" THEN "done" ELSE "fault"
    /\ UNCHANGED << list_queries, return_qry, args, warehouse, data_cache,
                    session_state, writes, first_run, df, page_number, grid, run >>

\* The user clears the st.cache_data memo between two runs.
ClearMemo ==
    /\ pc \in {"done", "fault"}
    /\ data_cache # Empty
    /\ data_cache' = Empty
    /\ UNCHANGED << list_queries, return_qry, args, result, warehouse, session_state,
                    writes, first_run, df, page_number, grid, pc, run, surface, reads >>

Next ==
    \/ StartRun
    \/ Question1
    \/ Question2
    \/ Question3
    \/ Widget1
    \/ Widget2
    \/ Widget3
    \/ ClearMemo

Spec == Init /\ [][Next]_vars

(***************************************************************************)
(* Claims about the composer and the executor (SpecCompose).               *)
(***************************************************************************)
\* A fragment list of the shape the composer is meant for: a non-empty list
\* of (alias, body) pairs of strings.
IsFragmentList(lq) ==
    /\ isinstance(lq, "list")
    /\ lq.items # << >>
    /\ \A i \in 1..Len(lq.items) :
          /\ isinstance(lq.items[i], "tuple")
          /\ Len(lq.items[i].items) = 2
          /\ isinstance(lq.items[i].items[1], "str")
          /\ isinstance(lq.items[i].items[2], "str")

\* The first n fragments of items, each rendered "<alias> AS (<body>)",
\* separated by commas, in list order.
RECURSIVE Rendered(_, _)
Rendered(items, n) ==
    LET frag == items[n].items[1].s \o " AS (" \o items[n].items[2].s \o ")"
    IN  IF n = 1 THEN frag ELSE Rendered(items, n - 1) \o "," \o frag

\* C1: for a non-empty list of (alias, body) pairs and a final query string,
\* build_CTE returns exactly "WITH " + the fragments rendered
\* "<alias> AS (<body>)" joined by "," in list order + " " + final query + ";";
\* build_CTE([("A","SELECT 1")], "SELECT * FROM A") returns
\* "WITH A AS (SELECT 1) SELECT * FROM A;".
C1_ComposeCTE ==
    (result.fn = "build_CTE" /\ IsFragmentList(list_queries) /\ isinstance(return_qry, "str"))
    => /\ result.kind = "return"
       /\ result.val = PyStr("WITH " \o Rendered(list_queries.items, Len(list_queries.items))
                                     \o " " \o return_qry.s \o ";")
       /\ (list_queries = PyList(<< EntryA >>) /\ return_qry = PyStr("SELECT * FROM A"))
          => result.val = PyStr("WITH A AS (SELECT 1) SELECT * FROM A;")
       /\ (list_queries = PyList(<< EntryB, EntryA >>) /\ return_qry = PyStr("SELECT 1"))
          => result.val = PyStr("WITH B AS (SELECT 2),A AS (SELECT 1) SELECT 1;")

C1_Witness ==
    /\ result.fn = "build_CTE"
    /\ list_queries = PyList(<< EntryA, EntryB >>)
    /\ return_qry = PyStr("SELECT * FROM A")
    /\ result.val = PyStr("WITH A AS (SELECT 1),B AS (SELECT 2) SELECT * FROM A;")

\* C2: build_CTE and build_seq_qrys called with an empty fragment list fail
\* with ValueError (InvalidArgument) and return no query string.
C2_EmptyListFails ==
    (result.fn \in {"build_CTE", "build_seq_qrys"} /\ list_queries = PyList(<< >>))
    => (result.kind = "raise" /\ result.exc = "ValueError")

\* C4: when the warehouse call fails, fetch_data / get_query_result reports
\* the error on the user surface and returns an empty table; it does not
\* raise to its caller.
C4_FailureYieldsEmptyTable ==
    (result.fn \in {"fetch_data", "get_query_result"} /\ warehouse = "failed")
    => /\ result.kind = "return"
       /\ result.val = EmptyDataFrame
       /\ result.reported = << ErrorExecutingQuery >>

C4_Witness ==
    /\ result.fn = "get_query_result"
    /\ list_queries = PyList(<< EntryA, EntryB >>)
    /\ warehouse = "failed"
    /\ result.kind = "return"
    /\ result.val = EmptyDataFrame

\* C6: build_qry fails with ValueError (InvalidArgument) whenever the alias is
\* empty or the body is not a string, and returns "<alias> AS (<body>)" only
\* for a non-empty alias and a string body.
C6_FragmentValidated ==
    (result.fn = "build_qry" /\ isinstance(args[1], "tuple") /\ Len(args[1].items) = 2)
    => LET alias == args[1].items[1]
           body == args[1].items[2]
       IN  IF alias = PyStr("") \/ ~isinstance(body, "str")
           THEN result.kind = "raise" /\ result.exc = "ValueError"
           ELSE result.kind = "return"

\* C7: build_CTE fails when the final query is empty: for every fragment
\* list, no query string is returned for an empty final query.
C7_EmptyFinalQueryFails ==
    (result.fn = "build_CTE" /\ return_qry = PyStr(""))
    => result.kind = "raise"

(***************************************************************************)
(* Claims about the result cache (SpecCache).                              *)
(***************************************************************************)
\* C3: the result cache is write-once per key: after any sequence of
\* cache_df(key, table) calls the keys stored are the keys written, and the
\* value under each key is the table the first call for that key passed, so
\* that a later call with an existing key changes nothing.
C3_WriteOnce ==
    /\ DOMAIN session_state = DOMAIN writes
    /\ \A k \in DOMAIN session_state : session_state[k] = writes[k][1]

C3_Witness ==
    /\ "k" \in DOMAIN writes
    /\ writes["k"] = << Table({"X"}, << 1 >>), Table({"X"}, << 2 >>) >>
    /\ args = << PyStr("k"), Table({"X"}, << 2 >>) >>
    /\ session_state["k"] = Table({"X"}, << 1 >>)

(***************************************************************************)
(* Claims about pagination (SpecGrid).                                     *)
(***************************************************************************)
\* The table with n rows, and the pages show_grid allows for it.
RowCount == Len(df.items)
AllowedPages == grid.min_value..grid.max_value

\* C5 as claimed: for a 12-row table, pages 1, 2 and 3 expose 5, 5 and 2
\* rows, and page 4 is within the allowed page bound and exposes 0 rows.
C5_PageFourAllowed ==
    (grid.shown /\ RowCount = 12)
    => /\ page_number = 1 => Len(grid.rows) = 5
       /\ page_number = 2 => Len(grid.rows) = 5
       /\ page_number = 3 => Len(grid.rows) = 2
       /\ 4 \in AllowedPages
       /\ Len(show_grid(df, 4).rows) = 0

\* C5 amended: for a 12-row table the allowed page bound is [1, 3]; pages 1,
\* 2 and 3 expose 5, 5 and 2 rows; page 4 is outside the bound (its slice
\* [15, 20) holds no row).
C5_TwelveRows ==
    (grid.shown /\ RowCount = 12)
    => /\ grid.min_value = 1 /\ grid.max_value = 3
       /\ page_number \in 1..3
       /\ page_number = 1 => grid.rows = << PyInt(1), PyInt(2), PyInt(3), PyInt(4), PyInt(5) >>
       /\ page_number = 2 => grid.rows = << PyInt(6), PyInt(7), PyInt(8), PyInt(9), PyInt(10) >>
       /\ page_number = 3 => grid.rows = << PyInt(11), PyInt(12) >>
       /\ 4 \notin AllowedPages
       /\ Len(show_grid(df, 4).rows) = 0

C5_Witness ==
    /\ grid.shown
    /\ RowCount = 12
    /\ page_number = 3
    /\ Len(grid.rows) = 2

\* C9: with total_pages = floor(rowCount / 5) the allowed pages are
\* [1, total_pages + 1]; the slice of an allowed page is empty if and only if
\* rowCount is a multiple of 5 and the page is total_pages + 1; every other
\* allowed page exposes between 1 and 5 rows; and the allowed pages together
\* expose every row exactly once.
C9_Slices ==
    grid.shown
    => /\ AllowedPages = 1..(RowCount \div 5 + 1)
       /\ page_number \in AllowedPages
       /\ Len(grid.rows) = 0 <=> (RowCount % 5 = 0 /\ page_number = RowCount \div 5 + 1)
       /\ Len(grid.rows) \in 0..5
       /\ grid.rows = [i \in 1..Len(grid.rows) |-> df.items[(page_number - 1) * 5 + i]]
       /\ \A r \in 1..RowCount :
             Cardinality({ p \in AllowedPages :
                             \E i \in 1..Len(show_grid(df, p).rows) :
                                 show_grid(df, p).rows[i] = df.items[r] }) = 1
       /\ \A p \in AllowedPages :
             Len(show_grid(df, p).rows) = 0 <=> (RowCount % 5 = 0 /\ p = RowCount \div 5 + 1)

C9_Witness ==
    /\ grid.shown
    /\ RowCount = 10
    /\ page_number = 3
    /\ grid.rows = << >>

(***************************************************************************)
(* Claims about the runs of the script (Spec).                             *)
(***************************************************************************)
Keys == {"df_question_1", "df_question_2", "df_question_3"}

\* C8: when a warehouse call fails or returns no rows, the run goes on with
\* an empty table and reaches the end of rendering without an unhandled
\* fault: no run of the script ends in an exception.
C8_RunCompletes == pc # "fault" /\ result.kind # "raise"

\* C10: in every run the cache writes precede the renders, each key is there
\* when a widget reads it, and the table a widget reads is the table the
\* first run of the session stored, whatever the query returned since.
C10_FirstRunTableRendered ==
    /\ pc \in Widgets => Keys \subseteq DOMAIN session_state
    /\ DOMAIN reads # {} => Keys \subseteq DOMAIN session_state
    /\ DOMAIN reads \subseteq DOMAIN first_run
    /\ \A k \in DOMAIN reads : reads[k] = first_run[k]
    /\ \A k \in DOMAIN session_state :
          k \in DOMAIN first_run /\ session_state[k] = first_run[k]

\* A second run renders the empty table the failed query of the first run
\* left under df_question_2, though the query has since returned rows.
C10_Witness ==
    LET query == build_CTE(question2_list_qrys, PyStr(TEMP_RANKED_COMPANIES)).val.s
    IN  /\ run = 2
        /\ "df_question_2" \in DOMAIN reads
        /\ reads["df_question_2"] = EmptyDataFrame
        /\ grid.shown /\ grid.rows = << >>
        /\ query \in DOMAIN data_cache
        /\ data_cache[query].val = Table(Columns(2), << 7 >>)

====
